---- MODULE Spec2Model ----
(***************************************************************************)
(* Model of the feishu_intl_tool pipeline:                                 *)
(*   feishu_sheets_export.py : fetch_sheet_values -> write_csv             *)
(*   language_generator.py   : main -> parse_csv_data -> validate_data     *)
(*                                  -> generate_json_files                 *)
(*                                                                         *)
(* A Python str is a sequence of one-character tokens, so that strip(),    *)
(* lower(), replace() and the csv writer/reader are computed character by  *)
(* character.  A Python dict is a sequence of entries in insertion order   *)
(* (the outer i18n_data dict) or a function (the inner per-key dict, whose *)
(* order nothing reads).  Python indices are kept 0-based.                 *)
(***************************************************************************)
EXTENDS Integers, Sequences, FiniteSets, TLC

\* ------------------------------------------------------------------ bounds

\* the largest number of data rows (rows after the header) of a sheet
MaxDataRows == 3

\* ------------------------------------------------------------ characters

BS == "\\"
DQ == "\""
NL == "\n"
CR == "\r"
SP == " "
COMMA == ","
\* U+FEFF, the byte-order mark, as one character token
BOM == "BOM"
\* a cell the Sheets API returns as JSON null
NoneValue == <<"None">>

\* str.strip() with no argument strips Unicode whitespace
IsSpace(c) == c \in {SP, NL, CR, "\t"}

RECURSIVE LStrip(_)
LStrip(s) ==
    IF s # <<>> /\ IsSpace(Head(s)) THEN LStrip(Tail(s)) ELSE s

RECURSIVE RStrip(_)
RStrip(s) ==
    IF s # <<>> /\ IsSpace(s[Len(s)]) THEN RStrip(SubSeq(s, 1, Len(s) - 1)) ELSE s

\* str.strip()
Strip(s) == RStrip(LStrip(s))

\* str.lower(), on the letters the sheets of this model use
LowerChar(c) ==
    CASE c = "K" -> "k"
      [] c = "E" -> "e"
      [] c = "Y" -> "y"
      [] c = "N" -> "n"
      [] c = "Z" -> "z"
      [] c = "H" -> "h"
      [] OTHER -> c

Lower(s) == [i \in 1..Len(s) |-> LowerChar(s[i])]

IsPrefix(p, s) == Len(p) <= Len(s) /\ SubSeq(s, 1, Len(p)) = p

\* str.replace(old, new): left to right, non-overlapping
RECURSIVE Replace(_, _, _)
Replace(s, old, new) ==
    IF s = <<>> THEN <<>>
    ELSE IF IsPrefix(old, s)
         THEN new \o Replace(SubSeq(s, Len(old) + 1, Len(s)), old, new)
         ELSE <<Head(s)>> \o Replace(Tail(s), old, new)

\* value.replace('\\n', '\n').replace('\\"', '"')
Unescape(value) == Replace(Replace(value, <<BS, "n">>, <<NL>>), <<BS, DQ>>, <<DQ>>)

\* ------------------------------------------------- csv.writer / csv.reader

RECURSIVE ConcatRange(_, _, _)
\* parts[lo] \o ... \o parts[hi], by halves
ConcatRange(parts, lo, hi) ==
    IF lo > hi THEN <<>>
    ELSE IF lo = hi THEN parts[lo]
    ELSE LET mid == (lo + hi) \div 2
         IN  ConcatRange(parts, lo, mid) \o ConcatRange(parts, mid + 1, hi)

\* "".join(parts)
Concat(parts) == ConcatRange(parts, 1, Len(parts))

\* QUOTE_MINIMAL: a field is quoted when it holds the delimiter, the quote
\* character or a character of the line terminator
NeedsQuote(cell) == \E i \in 1..Len(cell) : cell[i] \in {COMMA, DQ, CR, NL}

\* doublequote=True: a quote character inside a quoted field is doubled
QuoteCell(cell) ==
    <<DQ>> \o Concat([i \in 1..Len(cell) |->
                        IF cell[i] = DQ THEN <<DQ, DQ>> ELSE <<cell[i]>>]) \o <<DQ>>

\* csv.writer(f).writerow(r), lineterminator '\r\n'; a row that is one empty
\* field is written as "" so that it differs from an empty row
WriteRow(r) ==
    Concat([i \in 1..Len(r) |->
              (IF i > 1 THEN <<COMMA>> ELSE <<>>)
              \o (IF NeedsQuote(r[i]) \/ (r[i] = <<>> /\ Len(r) = 1)
                  THEN QuoteCell(r[i]) ELSE r[i])])
    \o <<CR, NL>>

\* open(path, 'r').read(): universal newlines, '\r\n' and '\r' become '\n'
UniversalNewlines(t) ==
    Concat([i \in 1..Len(t) |->
              IF t[i] = CR THEN <<NL>>
              ELSE IF t[i] = NL /\ i > 1 /\ t[i - 1] = CR THEN <<>>
              ELSE <<t[i]>>])

\* the end-of-line mark the reader processes after the characters of a line
EOL == "EOL"

\* What csv.reader is fed: StringIO(text) is iterated line by line, each line
\* is processed character by character and followed by the end-of-line mark
ReaderInput(t) ==
    Concat([i \in 1..Len(t) |->
              IF t[i] = NL THEN <<NL, EOL>>
              ELSE IF i = Len(t) THEN <<t[i], EOL>>
              ELSE <<t[i]>>])

\* The reader's parse_process_char, excel dialect (no escapechar, not strict,
\* skipinitialspace off), in three parts: the next parser state, whether the
\* character is added to the field being read, whether the field is saved.
\* In state EAT_CRNL any character but a line end is an error of the reader;
\* no such character arrives, since a text read with universal newlines
\* holds no '\r' and a '\n' is the last character of its line.
ReaderState(st, c) ==
    IF st = "EAT_CRNL"
    THEN IF c = EOL THEN "START_RECORD" ELSE st
    ELSE IF st = "IN_QUOTED_FIELD"
    THEN IF c = DQ THEN "QUOTE_IN_QUOTED_FIELD" ELSE st
    ELSE IF c = EOL THEN "START_RECORD"
    ELSE IF c \in {NL, CR} THEN "EAT_CRNL"
    ELSE IF st = "QUOTE_IN_QUOTED_FIELD" /\ c = DQ THEN "IN_QUOTED_FIELD"
    ELSE IF c = COMMA THEN "START_FIELD"
    ELSE IF st \in {"START_RECORD", "START_FIELD"} /\ c = DQ THEN "IN_QUOTED_FIELD"
    ELSE "IN_FIELD"

ReaderAdds(st, c) ==
    IF st = "EAT_CRNL" THEN FALSE
    ELSE IF st = "IN_QUOTED_FIELD" THEN c \notin {DQ, EOL}
    ELSE IF c \in {NL, CR, EOL, COMMA} THEN FALSE
    ELSE IF st \in {"START_RECORD", "START_FIELD"} THEN c # DQ
    ELSE TRUE

ReaderSaves(st, c) ==
    /\ st \in {"START_RECORD", "START_FIELD", "IN_FIELD", "QUOTE_IN_QUOTED_FIELD"}
    /\ c \in {NL, CR, EOL, COMMA}
    /\ ~(st = "START_RECORD" /\ c # COMMA)

\* The parser state before each of the characters in[lo..hi], from state st
\* before in[lo]; the range is run by halves, which keeps the evaluation
\* shallow
RECURSIVE ReaderStates(_, _, _, _)
RECURSIVE ReaderStatesJoin(_, _, _, _)
ReaderStates(in, lo, hi, st) ==
    IF lo > hi THEN <<>>
    ELSE IF lo = hi THEN <<st>>
    ELSE ReaderStatesJoin(in, (lo + hi) \div 2, hi,
                          ReaderStates(in, lo, (lo + hi) \div 2, st))

\* the states of the left half, then those of in[mid+1..hi]
ReaderStatesJoin(in, mid, hi, left) ==
    left \o ReaderStates(in, mid + 1, hi, ReaderState(left[Len(left)], in[mid]))

\* the elements of a set of positions, in increasing order
Ascending(S) ==
    [k \in 1..Cardinality(S) |->
        CHOOSE p \in S : Cardinality({q \in S : q < p}) = k - 1]

\* the characters at positions ps
CharsAt(in, ps) == [k \in 1..Len(ps) |-> in[ps[k]]]

\* a field: the characters the reader added in in[from..to]
ReaderField(in, before, from, to) ==
    CharsAt(in, Ascending({i \in from..to : ReaderAdds(before[i], in[i])}))

\* the fields the reader saved at positions saves, the first starting at from
ReaderFields(in, before, from, saves) ==
    [k \in 1..Len(saves) |->
        ReaderField(in, before, IF k = 1 THEN from ELSE saves[k - 1] + 1, saves[k])]

\* a record: the fields the reader saved in in[from..to]
ReaderRecord(in, before, from, to) ==
    ReaderFields(in, before, from,
                 Ascending({i \in from..to : ReaderSaves(before[i], in[i])}))

\* when the lines end inside a quoted field: the fields saved since position
\* from, and the field being read
ReaderLastRecord(in, before, from, saves) ==
    Append(ReaderFields(in, before, from, saves),
           ReaderField(in, before,
                       IF saves = <<>> THEN from ELSE saves[Len(saves)] + 1, Len(in)))

\* the records that end at positions ends, and the one cut short by the end
\* of the lines
ReaderRecords(in, before, ends) ==
    [k \in 1..Len(ends) |->
        ReaderRecord(in, before, IF k = 1 THEN 1 ELSE ends[k - 1] + 1, ends[k])]
    \o (IF in # <<>> /\ ReaderState(before[Len(in)], in[Len(in)]) = "IN_QUOTED_FIELD"
        THEN <<ReaderLastRecord(
                  in, before, IF ends = <<>> THEN 1 ELSE ends[Len(ends)] + 1,
                  Ascending({i \in (IF ends = <<>> THEN 1 ELSE ends[Len(ends)] + 1)..Len(in) :
                               ReaderSaves(before[i], in[i])}))>>
        ELSE <<>>)

\* a record ends where a line ends in state START_RECORD
ReaderParse(in, before) ==
    ReaderRecords(in, before,
                  Ascending({i \in 1..Len(in) :
                               in[i] = EOL /\ ReaderState(before[i], in[i]) = "START_RECORD"}))

\* the reader run over its input
ReaderRun(in) == ReaderParse(in, ReaderStates(in, 1, Len(in), "START_RECORD"))

\* list(csv.reader(StringIO(text))): a record ends where a line ends in state
\* START_RECORD; its fields end where the reader saves a field; a field is
\* the characters the reader added since the field before it
ReadCsv(text) == ReaderRun(ReaderInput(text))

\* ------------------------------------------------ feishu_sheets_export.py

\* "" if v is None else str(v)
FetchCell(v) == IF v = NoneValue THEN <<>> ELSE v

\* the loop of fetch_sheet_values over the value range's rows
FetchRows(vals) ==
    [i \in 1..Len(vals) |-> [j \in 1..Len(vals[i]) |-> FetchCell(vals[i][j])]]

\* is_empty_row of write_csv
is_empty_row(r) == \A i \in 1..Len(r) : Strip(r[i]) = <<>>

\* a write_csv that drops at most one trailing blank row
TrimTrailingOnce(trimmed) ==
    IF trimmed # <<>> /\ is_empty_row(trimmed[Len(trimmed)])
    THEN SubSeq(trimmed, 1, Len(trimmed) - 1)
    ELSE trimmed

\* while trimmed and is_empty_row(trimmed[-1]): trimmed.pop()
RECURSIVE TrimTrailing(_)
TrimTrailing(trimmed) ==
    IF trimmed # <<>> /\ is_empty_row(trimmed[Len(trimmed)])
    THEN TrimTrailing(SubSeq(trimmed, 1, Len(trimmed) - 1))
    ELSE trimmed

\* write_csv: the text of language.csv
write_csv(rws) ==
    LET trimmed == TrimTrailing(rws)
    IN  Concat([i \in 1..Len(trimmed) |-> WriteRow(trimmed[i])])

\* -------------------------------------------------- language_generator.py

Str_key == <<"k", "e", "y">>

\* LANGUAGES, in declaration order (a dict keeps insertion order)
LANGUAGES ==
    << [code |-> <<"z", "h">>, file_name |-> "intl_zh.arb"],
       [code |-> <<"e", "n">>, file_name |-> "intl_en.arb"],
       [code |-> <<"j", "a">>, file_name |-> "intl_ja.arb"],
       [code |-> <<"k", "o">>, file_name |-> "intl_ko.arb"],
       [code |-> <<"t", "r">>, file_name |-> "intl_tr.arb"] >>

\* LANGUAGES.keys()
Codes == {LANGUAGES[i].code : i \in 1..Len(LANGUAGES)}

\* the position of a code in LANGUAGES
CodePos(code) == CHOOSE i \in 1..Len(LANGUAGES) : LANGUAGES[i].code = code

EmptyDict == [x \in {} |-> <<>>]

\* if csv_content.startswith('\ufeff'): csv_content = csv_content[1:]
StripBom(csv_content) ==
    IF csv_content # <<>> /\ Head(csv_content) = BOM
    THEN Tail(csv_content) ELSE csv_content

\* headers = [h.strip() for h in rows[0] if h.strip()]
Headers(row0) ==
    SelectSeq([i \in 1..Len(row0) |-> Strip(row0[i])], LAMBDA h : h # <<>>)

\* 'key' not in headers
HasKey(headers) == \E i \in 1..Len(headers) : headers[i] = Str_key

\* headers.index('key'), 0-based
KeyIndex(headers) ==
    (CHOOSE i \in 1..Len(headers) :
        /\ headers[i] = Str_key
        /\ \A j \in 1..(i - 1) : headers[j] # Str_key) - 1

\* the loop over enumerate(headers) that fills language_columns; n headers
\* have been visited.  A later column of the same language replaces an
\* earlier one.
RECURSIVE LanguageColumns(_, _)
LanguageColumns(headers, n) ==
    IF n = 0 THEN EmptyDict
    ELSE LET prev == LanguageColumns(headers, n - 1)
             h == Lower(headers[n])
         IN  IF h = Str_key THEN prev
             ELSE IF h \in Codes THEN ((h :> (n - 1)) @@ prev)
             ELSE prev

\* the inner loop over language_columns for one data row
RowTranslations(row, cols) ==
    [code \in {c \in DOMAIN cols : cols[c] < Len(row)} |->
        Unescape(Strip(row[cols[code] + 1]))]

\* a parser that merges a repeated key's rows instead of replacing the entry
DictSetMerge(result, key, value) ==
    IF \E i \in 1..Len(result) : result[i].key = key
    THEN [i \in 1..Len(result) |->
            IF result[i].key = key
            THEN [key |-> key, tr |-> value @@ result[i].tr] ELSE result[i]]
    ELSE Append(result, [key |-> key, tr |-> value])

\* result[key] = value on an insertion-ordered dict: an existing key keeps
\* its position
DictSet(result, key, value) ==
    IF \E i \in 1..Len(result) : result[i].key = key
    THEN [i \in 1..Len(result) |->
            IF result[i].key = key THEN [key |-> key, tr |-> value] ELSE result[i]]
    ELSE Append(result, [key |-> key, tr |-> value])

\* a parser without the "if not key: continue" test
ParseRowKeepsEmptyKey(result, row, kidx, cols) ==
    IF row = <<>> \/ Len(row) <= kidx THEN result
    ELSE DictSet(result, Strip(row[kidx + 1]), RowTranslations(row, cols))

\* one iteration of "for row in rows[1:]"
ParseRow(result, row, kidx, cols) ==
    IF row = <<>> \/ Len(row) <= kidx THEN result
    ELSE LET key == Strip(row[kidx + 1])
         IN  IF key = <<>> THEN result
             ELSE DictSet(result, key, RowTranslations(row, cols))

\* the loop "for row in rows[1:]" over the first n data rows
RECURSIVE ParseRows(_, _, _, _)
ParseRows(datarows, n, kidx, cols) ==
    IF n = 0 THEN <<>>
    ELSE ParseRow(ParseRows(datarows, n - 1, kidx, cols), datarows[n], kidx, cols)

NoResult == [error |-> "none", rows |-> <<>>, result |-> <<>>, key_index |-> -1,
             language_columns |-> EmptyDict]

\* raise ValueError(...)
Raise(e, rws) == [NoResult EXCEPT !.error = e, !.rows = rws]

\* parse_csv_data from "if not language_columns" on
ParseWithColumns(rws, kidx, cols) ==
    IF DOMAIN cols = {} THEN Raise("NoLanguageColumns", rws)
    ELSE [error |-> "none",
          rows |-> rws,
          result |-> ParseRows(Tail(rws), Len(rws) - 1, kidx, cols),
          key_index |-> kidx,
          language_columns |-> cols]

\* parse_csv_data from "if 'key' not in headers" on
ParseWithHeaders(rws, headers) ==
    IF ~HasKey(headers) THEN Raise("MissingKeyColumn", rws)
    ELSE ParseWithColumns(rws, KeyIndex(headers), LanguageColumns(headers, Len(headers)))

\* parse_csv_data from "if len(rows) < 2" on
ParseTable(rws) ==
    IF Len(rws) < 2 THEN Raise("TooFewRows", rws)
    ELSE ParseWithHeaders(rws, Headers(rws[1]))

\* parse_csv_data: error is the ValueError raised, or "none"
parse_csv_data(csv_content) == ParseTable(ReadCsv(StripBom(csv_content)))

\* lang_code in translations and translations[lang_code]
Present(translations, code) ==
    code \in DOMAIN translations /\ translations[code] # <<>>

\* an emitter that tests only "lang_code in translations"
LangDataKeepsEmpty(data, code) ==
    LET kept == SelectSeq(data, LAMBDA e : code \in DOMAIN e.tr)
    IN  [i \in 1..Len(kept) |-> <<kept[i].key, kept[i].tr[code]>>]

\* generate_json_files: lang_data of one language, entries in key order
LangData(data, code) ==
    LET kept == SelectSeq(data, LAMBDA e : Present(e.tr, code))
    IN  [i \in 1..Len(kept) |-> <<kept[i].key, kept[i].tr[code]>>]

\* a validator that counts every value, empty or not
LanguageCountsAnyValue(data) ==
    [code \in Codes |->
        Cardinality({i \in 1..Len(data) : code \in DOMAIN data[i].tr})]

\* validate_data: language_counts
LanguageCounts(data) ==
    [code \in Codes |->
        Cardinality({i \in 1..Len(data) : Present(data[i].tr, code)})]

\* a validator that lists only the absent values, not the empty ones
MissingOfKeyAbsentOnly(e) ==
    LET all == [i \in 1..Len(LANGUAGES) |-> <<e.key, LANGUAGES[i].code>>]
    IN  SelectSeq(all, LAMBDA p : p[2] \notin DOMAIN e.tr)

\* validate_data: the (key, lang_code) pairs of one key, in LANGUAGES order
MissingOfKey(e) ==
    LET all == [i \in 1..Len(LANGUAGES) |-> <<e.key, LANGUAGES[i].code>>]
    IN  SelectSeq(all, LAMBDA p : p[2] \notin DOMAIN e.tr \/ e.tr[p[2]] = <<>>)

\* validate_data: missing_translations
MissingTranslations(data) ==
    Concat([i \in 1..Len(data) |-> MissingOfKey(data[i])])

\* a main that swallows the exception and goes on
RaisedPcSwallowed(err, normal) == normal

\* main's try/except: an exception leaves the try block, prints and exits
RaisedPc(err, normal) == IF err = "none" THEN normal ELSE "exit"

\* ------------------------------------------------------------- the sheets

Str_en == <<"e", "n">>
Str_zh == <<"z", "h">>

\* Header rows, the language en first and the key column second: plain; a
\* capitalised key header; an empty cell (a JSON null) before both columns;
\* padded cells, an upper-case language and a leading byte-order mark; no key
\* column; no declared language
HeaderRows ==
    { <<Str_en, Str_key, Str_zh>>,
      <<Str_en, <<"K", "e", "y">>>>,
      <<NoneValue, Str_en, Str_key>>,
      <<<<BOM, SP, "E", "N", SP>>, <<SP, "k", "e", "y", SP>>, Str_zh>>,
      <<Str_en, <<"i", "d">>>>,
      <<<<"f", "r">>, Str_key>> }

\* Data rows (en, key, zh): a full row whose last cell holds a comma and
\* padded \" escapes; a row repeating that key, without its last cell; a
\* padded key with the escape \n alone in a cell and an empty cell; a blank
\* row; an empty row; a row that ends before the key column
Row_a1 == <<<<"1">>, <<"a">>, <<SP, BS, DQ, "x", COMMA, "y", BS, DQ, SP>>>>
Row_a2 == <<<<"2">>, <<"a">>>>
Row_b == <<<<BS, "n">>, <<SP, "b", SP>>, <<>>>>
Row_blank == <<<<>>, <<SP, SP>>>>
Row_empty == <<>>
Row_short == <<<<"3">>>>

DataRows == {Row_a1, Row_a2, Row_b, Row_blank, Row_empty, Row_short}

RECURSIVE SeqsUpTo(_, _)
\* the sequences over S of length at most n
SeqsUpTo(S, n) ==
    IF n = 0 THEN {<<>>}
    ELSE LET shorter == SeqsUpTo(S, n - 1)
         IN  shorter \cup {Append(q, x) : q \in {r \in shorter : Len(r) = n - 1}, x \in S}

\* the value ranges the Sheets API may return: nothing, or a header row and
\* up to MaxDataRows data rows
Sheets ==
    {<<>>} \cup {<<h>> \o d : h \in HeaderRows, d \in SeqsUpTo(DataRows, MaxDataRows)}

\* ------------------------------------------------------------------ state

VARIABLES
    values,                 \* fetch_sheet_values: valueRange.values
    all_rows,               \* fetch_sheet_values: its result
    csv_file,               \* the text of language.csv
    pc,                     \* the step the two scripts are at
    error,                  \* the exception main caught, or "none"
    i18n_data,              \* main: the result of parse_csv_data
    rows,                   \* parse_csv_data: rows, the records of the csv reader
    key_index,              \* parse_csv_data: key_index (-1 before it is set)
    language_columns,       \* parse_csv_data: language_columns
    language_counts,        \* language_counts of validate_data
    missing_translations,   \* missing_translations of validate_data
    lang_pos,               \* generate_json_files: position in LANGUAGES
    files,                  \* the content of each .arb file, by language code
    written,                \* the codes whose file this run has written
    failed,                 \* the codes whose open()/json.dump raised
    calls,                  \* the generator's methods main has called
    exit_status             \* the exit status of language_generator.py (-1: running)

vars == <<values, all_rows, csv_file, pc, error, i18n_data, rows, key_index,
          language_columns, language_counts, missing_translations, lang_pos,
          files, written, failed, calls, exit_status>>

Init ==
    /\ values \in Sheets
    /\ all_rows = <<>>
    /\ csv_file = <<>>
    /\ pc = "fetch"
    /\ error = "none"
    /\ i18n_data = <<>>
    /\ rows = <<>>
    /\ key_index = -1
    /\ language_columns = EmptyDict
    /\ language_counts = EmptyDict
    /\ missing_translations = <<>>
    /\ lang_pos = 1
    /\ files = [c \in Codes |-> <<>>]
    /\ written = {}
    /\ failed = {}
    /\ calls = <<>>
    /\ exit_status = -1

\* feishu_sheets_export.main: rows = fetch_sheet_values(tenant_token)
FetchSheetValues ==
    /\ pc = "fetch"
    /\ all_rows' = FetchRows(values)
    /\ pc' = "write_csv"
    /\ UNCHANGED <<values, csv_file, error, i18n_data, rows, key_index, language_columns,
                   language_counts, missing_translations, lang_pos, files, written,
                   failed, calls, exit_status>>

\* feishu_sheets_export.main: write_csv(rows)
WriteCsv ==
    /\ pc = "write_csv"
    /\ csv_file' = write_csv(all_rows)
    /\ pc' = "parse"
    /\ UNCHANGED <<values, all_rows, error, i18n_data, rows, key_index, language_columns,
                   language_counts, missing_translations, lang_pos, files, written,
                   failed, calls, exit_status>>

\* language_generator.main: i18n_data = generator.parse_csv_data(f.read())
ParseCsvData ==
    /\ pc = "parse"
    /\ LET out == parse_csv_data(UniversalNewlines(csv_file))
       IN  /\ error' = out.error
           /\ i18n_data' = out.result
           /\ rows' = out.rows
           /\ key_index' = out.key_index
           /\ language_columns' = out.language_columns
           /\ pc' = RaisedPc(out.error, "validate")
           /\ exit_status' = IF pc' = "exit" THEN 1 ELSE exit_status
    /\ calls' = Append(calls, "parse_csv_data")
    /\ UNCHANGED <<values, all_rows, csv_file, language_counts, missing_translations,
                   lang_pos, files, written, failed>>

\* language_generator.main: generator.validate_data(i18n_data)
ValidateData ==
    /\ pc = "validate"
    /\ language_counts' = LanguageCounts(i18n_data)
    /\ missing_translations' = MissingTranslations(i18n_data)
    /\ calls' = Append(calls, "validate_data")
    /\ pc' = "generate"
    /\ UNCHANGED <<values, all_rows, csv_file, error, i18n_data, rows, key_index,
                   language_columns, lang_pos, files, written, failed, exit_status>>

\* generate_json_files: one iteration of the loop over LANGUAGES, the file
\* written
WriteLanguageFile ==
    /\ pc = "generate"
    /\ lang_pos <= Len(LANGUAGES)
    /\ LET code == LANGUAGES[lang_pos].code
       IN  /\ files' = [files EXCEPT ![code] = LangData(i18n_data, code)]
           /\ written' = written \cup {code}
    /\ lang_pos' = lang_pos + 1
    /\ calls' = IF lang_pos = 1 THEN Append(calls, "generate_json_files") ELSE calls
    /\ UNCHANGED <<values, all_rows, csv_file, pc, error, i18n_data, rows, key_index,
                   language_columns, language_counts, missing_translations, failed,
                   exit_status>>

\* generate_json_files: one iteration of the loop over LANGUAGES, open()
\* raising (the path is not writable); nothing catches it before main
WriteLanguageFileFails ==
    /\ pc = "generate"
    /\ lang_pos <= Len(LANGUAGES)
    /\ failed' = failed \cup {LANGUAGES[lang_pos].code}
    /\ error' = "WriteFailure"
    /\ lang_pos' = lang_pos + 1
    /\ calls' = IF lang_pos = 1 THEN Append(calls, "generate_json_files") ELSE calls
    /\ pc' = RaisedPc("WriteFailure", "generate")
    /\ exit_status' = IF pc' = "exit" THEN 1 ELSE exit_status
    /\ UNCHANGED <<values, all_rows, csv_file, i18n_data, rows, key_index, language_columns,
                   language_counts, missing_translations, files, written>>

\* language_generator.main: generate_json_files returned, the script ends
Finish ==
    /\ pc = "generate"
    /\ lang_pos > Len(LANGUAGES)
    /\ pc' = "done"
    /\ exit_status' = 0
    /\ UNCHANGED <<values, all_rows, csv_file, error, i18n_data, rows, key_index,
                   language_columns, language_counts, missing_translations, lang_pos,
                   files, written, failed, calls>>

Next ==
    \/ FetchSheetValues
    \/ WriteCsv
    \/ ParseCsvData
    \/ ValidateData
    \/ WriteLanguageFile
    \/ WriteLanguageFileFails
    \/ Finish

Spec == Init /\ [][Next]_vars

\* ------------------------------------------------------------- properties

ParseErrors == {"TooFewRows", "MissingKeyColumn", "NoLanguageColumns"}

\* parse_csv_data has run; it has run and returned; validate_data has run
Parsed == Len(calls) >= 1
ParsedOk == Parsed /\ error \notin ParseErrors
Validated == Len(calls) >= 2

\* the rows parse_csv_data read from language.csv
CsvRows == rows

\* the rows of language.csv as a reader sees them, the byte-order mark kept
FileRows == ReadCsv(UniversalNewlines(csv_file))

\* the keys of the canonical map
MapKeys == {i18n_data[n].key : n \in 1..Len(i18n_data)}

\* A document and the canonical map agree for language code: the document's
\* keys are distinct, each of its pairs is a pair of the map that passes the
\* test, and each pair of the map that passes the test is in the document.
\* The test is "non-empty" or, with trimmed, "non-empty after trimming".
DocumentAgrees(code, trimmed) ==
    LET doc == files[code]
        Passes(v) == IF trimmed THEN Strip(v) # <<>> ELSE v # <<>>
    IN  /\ \A i, j \in 1..Len(doc) : doc[i][1] = doc[j][1] => i = j
        /\ \A i \in 1..Len(doc) :
              \E n \in 1..Len(i18n_data) :
                 /\ i18n_data[n].key = doc[i][1]
                 /\ code \in DOMAIN i18n_data[n].tr
                 /\ Passes(i18n_data[n].tr[code])
                 /\ doc[i][2] = i18n_data[n].tr[code]
        /\ \A n \in 1..Len(i18n_data) :
              (code \in DOMAIN i18n_data[n].tr /\ Passes(i18n_data[n].tr[code]))
                 => \E i \in 1..Len(doc) : doc[i][1] = i18n_data[n].key

\* C1, as claimed: the document written for a language holds key k if and
\* only if the canonical map's value for (k, language) is non-empty after
\* trimming, and holds the map's value for it.
C1_DocumentHoldsTrimmedNonEmpty ==
    \A code \in written : DocumentAgrees(code, TRUE)

\* C1, amended: the document written for a language holds key k if and only
\* if the canonical map's value for (k, language) is non-empty as stored (a
\* value the \n escape turned into a lone newline is written), and holds the
\* map's value for it.
C1_DocumentHoldsNonEmpty ==
    \A code \in written : DocumentAgrees(code, FALSE)

\* C1 witness: a written document holds a value that is a lone newline, made
\* by the \n escape after trimming, and the map holds an empty value that the
\* document of its language leaves out.
C1_Witness ==
    /\ \E code \in written : \E i \in 1..Len(files[code]) : files[code][i][2] = <<NL>>
    /\ \E code \in written : \E n \in 1..Len(i18n_data) :
          /\ code \in DOMAIN i18n_data[n].tr
          /\ i18n_data[n].tr[code] = <<>>

\* C2, as claimed: parse_csv_data fails with the missing-key-column error if
\* and only if no header cell, trimmed and lower-cased, equals "key".
C2_KeyColumnCaseInsensitive ==
    (Parsed /\ Len(CsvRows) >= 2) =>
        ((error = "MissingKeyColumn") <=>
            ~\E i \in 1..Len(CsvRows[1]) : Lower(Strip(CsvRows[1][i])) = Str_key)

\* C3, as claimed: the key column index and every language column index are
\* the original positions of their header cells in the header row.
C3_OriginalColumnPositions ==
    ParsedOk =>
        LET header == CsvRows[1]
        IN  /\ key_index < Len(header)
            /\ Strip(header[key_index + 1]) = Str_key
            /\ \A code \in DOMAIN language_columns :
                  /\ language_columns[code] < Len(header)
                  /\ Lower(Strip(header[language_columns[code] + 1])) = code

Blank(r) == \A i \in 1..Len(r) : \A j \in 1..Len(r[i]) : IsSpace(r[i][j])

\* a row sequence without its maximal trailing run of blank rows
WithoutTrailingBlank(rws) ==
    LET keep == {n \in 0..Len(rws) :
                   /\ n > 0 => ~Blank(rws[n])
                   /\ \A m \in (n + 1)..Len(rws) : Blank(rws[m])}
    IN  SubSeq(rws, 1, CHOOSE n \in keep : TRUE)

\* the outcome of exporting and parsing a row sequence
Normalize(rws) == parse_csv_data(UniversalNewlines(write_csv(rws)))

\* C5: the rows written to language.csv are the raw rows without their
\* maximal trailing run of blank rows, the outcome (the error or the canonical map) is the outcome
\* for the raw rows with that run removed beforehand, and every row with a
\* key, also one after an interior blank row, has its key in the map.
C5_TrailingBlankRowsTrimmed ==
    Parsed =>
        LET ref == Normalize(WithoutTrailingBlank(all_rows))
        IN  /\ FileRows = WithoutTrailingBlank(all_rows)
            /\ (IF error \in ParseErrors THEN error ELSE "none") = ref.error
            /\ i18n_data = ref.result
            /\ ParsedOk =>
                  \A i \in 2..Len(all_rows) :
                     (Len(all_rows[i]) > key_index
                        /\ Strip(all_rows[i][key_index + 1]) # <<>>)
                     => Strip(all_rows[i][key_index + 1]) \in MapKeys

\* C5 witness: a sheet with a blank row, then a row with a key, then a
\* trailing blank row, parsed into a map with that one key.
C5_Witness ==
    /\ ParsedOk
    /\ Len(all_rows) = 4
    /\ Blank(all_rows[2])
    /\ ~Blank(all_rows[3])
    /\ Blank(all_rows[4])
    /\ Len(FileRows) = 3
    /\ Len(i18n_data) = 1

\* the data rows parse_csv_data read
DataRowsRead == Tail(CsvRows)

\* the data rows that hold a key: long enough to reach the key column, with
\* a key cell that is not empty after trimming
KeyRows ==
    {i \in 1..Len(DataRowsRead) :
        /\ Len(DataRowsRead[i]) > key_index
        /\ Strip(DataRowsRead[i][key_index + 1]) # <<>>}

KeyOfRow(i) == Strip(DataRowsRead[i][key_index + 1])

\* the value a data row gives a language: its cell trimmed, then unescaped
ValueOfRow(i, code) == Unescape(Strip(DataRowsRead[i][language_columns[code] + 1]))

\* the data rows that hold key k
Occurrences(k) == {i \in KeyRows : KeyOfRow(i) = k}

MinOf(S) == CHOOSE x \in S : \A y \in S : x <= y
MaxOf(S) == CHOOSE x \in S : \A y \in S : x >= y

\* C6: the entry of a key holds exactly the values of the last row with that
\* key: the languages whose column that row reaches, each with that row's
\* value, and nothing of an earlier row; the keys are in the order of their
\* first rows.
C6_LastOccurrenceWins ==
    ParsedOk =>
        \A n \in 1..Len(i18n_data) :
            LET e == i18n_data[n]
                occ == Occurrences(e.key)
            IN  /\ occ # {}
                /\ DOMAIN e.tr = {code \in DOMAIN language_columns :
                                    language_columns[code] < Len(DataRowsRead[MaxOf(occ)])}
                /\ \A code \in DOMAIN e.tr : e.tr[code] = ValueOfRow(MaxOf(occ), code)
                /\ \A m \in 1..(n - 1) :
                      /\ Occurrences(i18n_data[m].key) # {}
                      /\ MinOf(Occurrences(i18n_data[m].key)) < MinOf(occ)

\* C6 witness: a key's first row gives two languages, another key follows,
\* and the key's last row is too short for the second language: the entry
\* holds one value and is still first.
C6_Witness ==
    /\ ParsedOk
    /\ Len(i18n_data) = 2
    /\ Cardinality(DOMAIN language_columns) = 2
    /\ Occurrences(i18n_data[1].key) = {1, 3}
    /\ Occurrences(i18n_data[2].key) = {2}
    /\ Cardinality(DOMAIN i18n_data[1].tr) = 1
    /\ Len(DataRowsRead[1]) = 3

\* C7: a failed parse ends the run at once: exit status 1, no document
\* written, no method called after parse_csv_data, no map; and a table with
\* fewer than two rows, or no header cell that is "key" in any case, or no
\* header cell that is a declared language code, fails to parse.
C7_ParseFailureAborts ==
    /\ error \in ParseErrors =>
          /\ pc = "exit"
          /\ exit_status = 1
          /\ written = {}
          /\ \A code \in Codes : files[code] = <<>>
          /\ calls = <<"parse_csv_data">>
          /\ i18n_data = <<>>
          /\ language_counts = EmptyDict
    /\ Parsed =>
          ((\/ Len(CsvRows) < 2
            \/ ~\E i \in 1..Len(CsvRows[1]) : Lower(Strip(CsvRows[1][i])) = Str_key
            \/ ~\E i \in 1..Len(CsvRows[1]) : Lower(Strip(CsvRows[1][i])) \in Codes)
           => error \in ParseErrors)

\* C7 witness: a run that ended because no header cell is a declared
\* language code.
C7_Witness ==
    /\ error = "NoLanguageColumns"
    /\ pc = "exit"
    /\ Len(CsvRows) >= 2

\* C8: the keys of the map are exactly the trimmed key cells of the rows that
\* hold a key, each once and none empty, and every value of the map is the
\* value of such a row: the other rows give the map nothing and stop nothing.
C8_KeysFromNonEmptyKeyCells ==
    ParsedOk =>
        /\ MapKeys = {KeyOfRow(i) : i \in KeyRows}
        /\ Cardinality(MapKeys) = Len(i18n_data)
        /\ <<>> \notin MapKeys
        /\ \A n \in 1..Len(i18n_data) : \A code \in DOMAIN i18n_data[n].tr :
              \E i \in Occurrences(i18n_data[n].key) :
                 /\ language_columns[code] < Len(DataRowsRead[i])
                 /\ i18n_data[n].tr[code] = ValueOfRow(i, code)

\* C8 witness: a row that ends before the key column and a row whose key
\* cell is blank are followed by a row that holds a key, and the map holds
\* that key alone.
C8_Witness ==
    /\ ParsedOk
    /\ \E i, j, k \in 1..Len(DataRowsRead) :
          /\ i < k /\ j < k
          /\ DataRowsRead[i] # <<>> /\ Len(DataRowsRead[i]) <= key_index
          /\ Len(DataRowsRead[j]) > key_index /\ j \notin KeyRows
          /\ k \in KeyRows
    /\ Len(i18n_data) = 1

\* the position of a (key, code) pair in key order, then LANGUAGES order
Rank(pair) ==
    (CHOOSE n \in 1..Len(i18n_data) : i18n_data[n].key = pair[1]) * Len(LANGUAGES)
        + CodePos(pair[2])

\* the value of (key n, code) is absent or empty
IsMissing(n, code) ==
    code \notin DOMAIN i18n_data[n].tr \/ i18n_data[n].tr[code] = <<>>

\* C9: validate_data does not fail, and missing_translations lists exactly
\* the (key, language) pairs whose value is absent or empty, each once, in
\* key order and then declared-language order.
C9_MissingListExact ==
    Validated =>
        /\ pc # "exit" \/ failed # {}
        /\ \A i \in 1..Len(missing_translations) :
              /\ missing_translations[i][1] \in MapKeys
              /\ missing_translations[i][2] \in Codes
              /\ \E n \in 1..Len(i18n_data) :
                    /\ i18n_data[n].key = missing_translations[i][1]
                    /\ IsMissing(n, missing_translations[i][2])
        /\ \A n \in 1..Len(i18n_data) : \A code \in Codes :
              IsMissing(n, code) =>
                 \E i \in 1..Len(missing_translations) :
                    missing_translations[i] = <<i18n_data[n].key, code>>
        /\ \A i \in 1..(Len(missing_translations) - 1) :
              Rank(missing_translations[i]) < Rank(missing_translations[i + 1])

\* C9 witness: the list holds a pair whose value is absent and a pair whose
\* value is the empty string.
C9_Witness ==
    /\ Validated
    /\ \E n \in 1..Len(i18n_data) : \E code \in Codes :
          /\ code \notin DOMAIN i18n_data[n].tr
          /\ code \in DOMAIN language_columns
          /\ \E i \in 1..Len(missing_translations) :
                missing_translations[i] = <<i18n_data[n].key, code>>
    /\ \E n \in 1..Len(i18n_data) : \E code \in Codes :
          /\ code \in DOMAIN i18n_data[n].tr
          /\ i18n_data[n].tr[code] = <<>>
          /\ \E i \in 1..Len(missing_translations) :
                missing_translations[i] = <<i18n_data[n].key, code>>

\* C10: the count validate_data reports for a language is the number of
\* entries of the document written for it, and that count plus the number
\* of missing pairs of the language is the number of keys.
C10_ValidatorEmitterAgree ==
    Validated =>
        \A code \in Codes :
            /\ code \in written => Len(files[code]) = language_counts[code]
            /\ language_counts[code]
                 + Cardinality({i \in 1..Len(missing_translations) :
                                  missing_translations[i][2] = code})
               = Len(i18n_data)

\* C10 witness: two documents are written, one with fewer entries than the
\* other because a value is empty.
C10_Witness ==
    /\ {Str_zh, Str_en} \subseteq written
    /\ Len(files[Str_en]) = 2
    /\ Len(files[Str_zh]) = 1
    /\ \E n \in 1..Len(i18n_data) :
          Str_zh \in DOMAIN i18n_data[n].tr /\ i18n_data[n].tr[Str_zh] = <<>>

====
